---- MODULE Spec2Model ----
(***************************************************************************)
(* Model of the LFASRClient of src/Ifasr_new.py: request signing, upload,  *)
(* the result-polling loop and the persistence of results.                 *)
(*                                                                         *)
(* One client instance is modelled.  Init is the state after __init__.     *)
(* transcribe() is split at its network requests: every request is one     *)
(* step whose response is chosen by the service.  poll_interval is taken   *)
(* to be non-negative, so time.sleep never raises.                         *)
(* GuiSpec models the window and its worker threads, ConcSpec the client   *)
(* called by several threads at once, split at every access to self.ts    *)
(* and self.signa.                                                         *)
(***************************************************************************)
EXTENDS Integers, Sequences, FiniteSets, TLC

\* ---------------------------------------------------------------- bounds
MaxClock == 2          \* the clock runs over 0..MaxClock ticks
TicksPerSecond == 2    \* clock ticks per second of time.time()
MaxRetryBound == 2     \* max_retry is drawn from -1..MaxRetryBound
MaxBusy == 2           \* status 0/1/3 answers the service gives per poll
MaxCalls == 2          \* transcribe calls made on the client instance
MaxTokens == 2         \* tokens in one cw[] or words[] list of a document
MaxSeconds == 3        \* files of up to MaxSeconds seconds are uploaded directly
MaxJobs == 2           \* worker threads the window starts
MaxThreads == 2        \* threads that call transcribe on the one client
MaxThreadBusy == 1     \* status 0/1/3 answers the poll of one thread gets

\* ------------------------------------------------------ program constants
BytesPerSecond == 32000

appid == "appid"
secret_key == "secret"
result_type == "transfer,predict"

NoStatus == -1         \* the response has no content.orderInfo.status
NoOrder == "none"
Orders == {"abc123", "def456"}
RetryBudgets == (-1)..MaxRetryBound

FileSizes == {31999, 32000}
\* the sizes around every whole number of seconds up to MaxSeconds
AllFileSizes ==
    {n \in {k * BytesPerSecond + d : k \in 0..MaxSeconds, d \in {-1, 0, 1, 15999}} :
        n >= 0}
AllFiles == {[exists |-> FALSE, size |-> 0]}
            \cup {[exists |-> TRUE, size |-> n] : n \in AllFileSizes}
Files == {[exists |-> FALSE, size |-> 0]}
         \cup {[exists |-> TRUE, size |-> n] : n \in FileSizes}

VARIABLES
    now,        \* time.time(), in ticks
    ts,         \* self.ts (the decimal string of a whole second, as its number)
    signa,      \* self.signa
    sigHist,    \* history: when the pair (ts, signa) was generated: gen is the
                \* number of requests the current call had sent (0 if the pair
                \* is older than the call), call the call that generated it
                \* (0 for __init__), sec the clock second it was generated in
    max_retry,  \* self.max_retry
    pc,         \* position of the caller inside transcribe()
    call,       \* number of transcribe calls begun on this instance
    file,       \* file_path of the current call
    upload_result, \* the value upload_file returned to transcribe
    url,        \* the status URL built once by get_transcription_result
    attempts,   \* local attempts of get_transcription_result
    nq,         \* history: status queries issued by the current poll
    nbusy,      \* history: answers with status 0/1/3 in the current poll
    ncounted,   \* history: answers of the other non-returning kinds
    sleeps,     \* history: time.sleep calls of the current poll
    lastResp,   \* history: the response to the latest status query
    warning,    \* history: the warning the latest status query logged for a
                \* non-zero application code (line 217)
    postResp,   \* history: the response to the upload request of the call
    prevAttempts, \* history: attempts before the latest status query
    onlyTransport, \* history: every answer of the poll failed at transport level
    sentSec,    \* history: the clock second the latest request was sent in
    ret,        \* the value returned by get_transcription_result
    err,        \* the exception that left transcribe()
    files,      \* history: artifacts save_results wrote for the current call
    log,        \* history: the requests sent by the current transcribe call
    used,       \* history: the (ts, signa) pairs carried by earlier calls
    \* the application window (AudioTranscriberApp)
    is_processing,      \* self.is_processing
    transcribe_button,  \* state of self.transcribe_button
    copy_button,        \* state of self.copy_button
    mainPc,             \* position of the main thread: in its main loop
                        \* ("idle"), inside start_transcription ("start"), or
                        \* out of the main loop after root.destroy() ("closed")
    workers,            \* the worker threads started so far, in order: the
                        \* position of each inside run_transcription, the way
                        \* its client.transcribe call ended, and the number of
                        \* save_results calls made for it
    afterq,             \* the callbacks handed to root.after, not yet run
    \* callers of one client from several threads
    threads             \* per thread: its position inside transcribe() and
                        \* the locals of the method it is in

clientVars == <<now, ts, signa, sigHist, max_retry, pc, call, file, upload_result, url,
          attempts, nq, nbusy, ncounted, sleeps, lastResp, warning, postResp,
          prevAttempts, onlyTransport, sentSec, ret, err, files, log, used>>

guiVars == <<is_processing, transcribe_button, copy_button, mainPc, workers,
             afterq>>

threadVars == <<threads>>

vars == <<clientVars, guiVars, threadVars>>

\* ------------------------------------------------------------- signing
\* _generate_signa: base64(HMAC-SHA1(key = secret_key, msg = md5hex(appid + ts)));
\* the digests are kept symbolic.
GenerateSigna(a, k, t) == <<"b64", <<"hmac-sha1", k, <<"md5", a, t>>>>>>

\* update_timestamp at clock value t: ts = str(int(time.time())), then signa.
UpdateTimestamp(t) ==
    [ts |-> t \div TicksPerSecond,
     signa |-> GenerateSigna(appid, secret_key, t \div TicksPerSecond)]

\* _estimate_duration: int(file_size / 32000)
EstimateDurationRounded(size) == (size + BytesPerSecond \div 2) \div BytesPerSecond

EstimateDuration(size) == size \div BytesPerSecond

\* ---------------------------------------------------------- error codes
\* ERROR_CODES (lines 31-49).  The descriptions are Chinese strings in the
\* source; each is written here by its English gloss.
ERROR_CODES ==
    (0 :> "success") @@ (10005 :> "invalid parameter")
    @@ (10006 :> "invalid signature") @@ (10007 :> "signature expired")
    @@ (10008 :> "too many requests") @@ (10009 :> "insufficient balance")
    @@ (10010 :> "invalid order id") @@ (10011 :> "invalid audio file")
    @@ (10012 :> "audio duration over the limit")
    @@ (10019 :> "concurrency over the limit")
    @@ (10029 :> "order does not exist") @@ (10101 :> "internal error")
    @@ (10102 :> "transcription failed") @@ (10103 :> "transcription timed out")
    @@ (10163 :> "wrong input parameter") @@ (10205 :> "invalid appid")
    @@ (10800 :> "invalid audio format")

\* the application codes a response may carry besides 0: every code of the
\* table and one the table does not know
UnknownCode == 99999
FailureCodes == (DOMAIN ERROR_CODES \ {0}) \cup {UnknownCode}

\* ------------------------------------------------------ result documents
\* JSON values as Python holds them after json.loads.  A string is the
\* sequence of its characters; a Chinese character is written by its pinyin
\* (with its tone where two characters of the model share the syllable).
JNull == [t |-> "null"]
JNum(n) == [t |-> "num", v |-> n]
JStr(s) == [t |-> "str", v |-> s]
JArr(s) == [t |-> "arr", v |-> s]
\* an object: its members, and its keys in the order they have in the JSON
\* text, which is the order a dict iterates in
JObjIn(ks, r) == [t |-> "obj", v |-> r, k |-> ks]
\* an object of at most one member
JObj(r) == JObjIn(IF DOMAIN r = {} THEN <<>> ELSE <<CHOOSE k \in DOMAIN r : TRUE>>, r)
EmptyObj == JObj(<<>>)
EmptyArr == JArr(<<>>)
\* the evaluation of an expression raised an exception
Raised == [t |-> "raised"]

\* the characters of the keys the documents use
KeyText ==
    [lattice |-> <<"l", "a", "t", "t", "i", "c", "e">>,
     sentences |-> <<"s", "e", "n", "t", "e", "n", "c", "e", "s">>,
     json_1best |-> <<"j", "s", "o", "n", "_", "1", "b", "e", "s", "t">>,
     st |-> <<"s", "t">>, rt |-> <<"r", "t">>, ws |-> <<"w", "s">>,
     cw |-> <<"c", "w">>, w |-> <<"w">>, wp |-> <<"w", "p">>,
     words |-> <<"w", "o", "r", "d", "s">>, x |-> <<"x">>]

\* result['content']['orderResult'] of a response: absent, or a string that
\* is the JSON text of a document, or a string that is no JSON text
NoBody == [t |-> "missing"]
Text(doc) == [t |-> "text", valid |-> TRUE, doc |-> doc]
BadText == [t |-> "text", valid |-> FALSE, doc |-> JNull]

\* json.loads(result['content']['orderResult']), line 302
JsonLoads(b) == IF b.t = "text" /\ b.valid THEN b.doc ELSE Raised

\* a occurs in b as a contiguous run
IsSub(a, b) ==
    \E i \in 0..(Len(b) - Len(a)) : SubSeq(b, i + 1, i + Len(a)) = a

\* Python's `k in v` for a key string k
Contains(k, v) ==
    IF v.t = "obj" THEN (IF k \in DOMAIN v.v THEN "yes" ELSE "no")
    ELSE IF v.t = "arr"
         THEN (IF \E i \in 1..Len(v.v) : v.v[i] = JStr(KeyText[k])
               THEN "yes" ELSE "no")
    ELSE IF v.t = "str" THEN (IF IsSub(KeyText[k], v.v) THEN "yes" ELSE "no")
    ELSE "raised"                                  \* TypeError

\* Python's v[k] for a key string k
Index(v, k) ==
    IF v.t = "obj" /\ k \in DOMAIN v.v THEN v.v[k] ELSE Raised

\* Python's v.get(k, d)
Get(v, k, d) ==
    IF v.t = "obj" THEN (IF k \in DOMAIN v.v THEN v.v[k] ELSE d)
    ELSE Raised                                    \* AttributeError

\* Python's `for x in v`: the items of a list, the keys of a dict, the
\* characters of a string; other values raise TypeError
Iterable(v) == v.t \in {"arr", "obj", "str"}
KeysOf(v) == [i \in 1..Len(v.k) |-> JStr(KeyText[v.k[i]])]
Items(v) ==
    IF v.t = "arr" THEN v.v
    ELSE IF v.t = "obj" THEN KeysOf(v)
    ELSE [i \in 1..Len(v.v) |-> JStr(<<v.v[i]>>)]

\* the segments a part of the traversal appended, or an exception
Fail == [raised |-> TRUE, segs |-> <<>>]
Ok(segs) == [raised |-> FALSE, segs |-> segs]

RECURSIVE Flat(_)
Flat(rs) ==
    IF rs = <<>> THEN Ok(<<>>)
    ELSE LET h == Head(rs)
             t == Flat(Tail(rs))
         IN IF h.raised \/ t.raised THEN Fail ELSE Ok(h.segs \o t.segs)

\* if "w" in cw: segments.append(cw["w"])     (lines 318-319, 325-326)
Token(cw) ==
    IF Contains("w", cw) = "raised" THEN Fail
    ELSE IF Contains("w", cw) = "no" THEN Ok(<<>>)
    ELSE IF Index(cw, "w") = Raised THEN Fail
    ELSE Ok(<<Index(cw, "w")>>)

\* for cw in cws / for word in words     (lines 317, 324)
EachToken(v) ==
    IF ~Iterable(v) THEN Fail
    ELSE Flat([i \in 1..Len(Items(v)) |-> Token(Items(v)[i])])

WsTokens(ws) == EachToken(Get(ws, "cw", EmptyArr))            \* line 316

\* for ws in wss                         (line 315)
EachWs(v) ==
    IF ~Iterable(v) THEN Fail
    ELSE Flat([i \in 1..Len(Items(v)) |-> WsTokens(Items(v)[i])])

RtTokens(rt) == EachWs(Get(rt, "ws", EmptyArr))               \* line 314

\* for rt in rts                         (line 313)
EachRt(v) ==
    IF ~Iterable(v) THEN Fail
    ELSE Flat([i \in 1..Len(Items(v)) |-> RtTokens(Items(v)[i])])

LatticeTokens(l) ==                                           \* lines 309-311
    EachRt(Get(Get(Get(l, "json_1best", EmptyObj), "st", EmptyObj),
               "rt", EmptyArr))

\* for lattice in order_result["lattice"]     (line 308)
EachLattice(v) ==
    IF ~Iterable(v) THEN Fail
    ELSE Flat([i \in 1..Len(Items(v)) |-> LatticeTokens(Items(v)[i])])

SentenceTokens(st) == EachToken(Get(st, "words", EmptyArr))   \* line 323

\* for sentence in order_result["sentences"]  (line 322)
EachSentence(v) ==
    IF ~Iterable(v) THEN Fail
    ELSE Flat([i \in 1..Len(Items(v)) |-> SentenceTokens(Items(v)[i])])

\* "".join(segments), line 331
RECURSIVE Concat(_)
Concat(segs) ==
    IF segs = <<>> THEN <<>> ELSE Head(segs).v \o Concat(Tail(segs))

JoinSpaced(segs) ==
    IF \E i \in 1..Len(segs) : segs[i].t # "str" THEN Raised
    ELSE JStr(Concat([i \in 1..Len(segs) |->
                         IF i = 1 THEN segs[i]
                         ELSE JStr(<<" ">> \o segs[i].v)]))

Join(segs) ==
    IF \E i \in 1..Len(segs) : segs[i].t # "str" THEN Raised      \* TypeError
    ELSE JStr(Concat(segs))

\* the branch taken at lines 306, 320, 327
SchemaOf(doc) ==
    IF Contains("lattice", doc) = "raised" THEN "raised"
    ELSE IF Contains("lattice", doc) = "yes" THEN "lattice"
    ELSE IF Contains("sentences", doc) = "yes" THEN "sentences"
    ELSE "none"

\* the strings extract_transcript_text returns at lines 329 and 334
UnrecognizedText == <<"wu", "fa", "jie3", "xi", "zhuan", "xie", "jie2", "guo">>
ExtractFailedText == <<"ti", "qu", "wen", "ben", "nei", "rong", "shi", "bai">>

\* what a call gives back: a value, or an exception
Returned(v) == [raised |-> FALSE, value |-> v]
Threw == [raised |-> TRUE, value |-> <<>>]

\* the body of the try block, lines 302-331
TryBody(result) ==
    LET doc == JsonLoads(result.body)
        segs == IF SchemaOf(doc) = "lattice"
                THEN EachLattice(Index(doc, "lattice"))
                ELSE EachSentence(Index(doc, "sentences"))
    IN IF doc = Raised \/ SchemaOf(doc) = "raised" THEN Threw
       ELSE IF SchemaOf(doc) = "none" THEN Returned(UnrecognizedText)
       ELSE IF segs.raised \/ Join(segs.segs) = Raised THEN Threw
       ELSE Returned(Join(segs.segs).v)

\* extract_transcript_text: the try block and its `except Exception`
ExtractTranscriptTextUncaught(result) == TryBody(result)

ExtractTranscriptTextSameSentinel(result) ==
    IF TryBody(result).raised THEN Returned(UnrecognizedText)
    ELSE TryBody(result)

ExtractTranscriptText(result) ==
    IF TryBody(result).raised THEN Returned(ExtractFailedText)
    ELSE TryBody(result)

\* --------------------------------------------- documents of the service
\* The word tokens of the documents.
Jin == <<"jin">>
Tian == <<"tian">>
TianQi == <<"tian", "qi">>
Hello == <<"h", "e", "l", "l", "o">>
Space == <<" ">>
World == <<"w", "o", "r", "l", "d">>
Tokens == {Jin, Tian, TianQi}

\* A well-shaped document is built from the nested sequences of its tokens.
Cw(tok) == JObjIn(<<"w", "wp">>, [w |-> JStr(tok), wp |-> JStr(<<"n">>)])
CwWpFirst(tok) == JObjIn(<<"wp", "w">>, [w |-> JStr(tok), wp |-> JStr(<<"n">>)])
Ws(toks) == JObj([cw |-> JArr([i \in 1..Len(toks) |-> Cw(toks[i])])])
Rt(wss) == JObj([ws |-> JArr([i \in 1..Len(wss) |-> Ws(wss[i])])])
Lattice(rts) ==
    JObj([json_1best |->
            JObj([st |-> JObj([rt |-> JArr([i \in 1..Len(rts) |-> Rt(rts[i])])])])])
LatticeArr(ls) == JArr([i \in 1..Len(ls) |-> Lattice(ls[i])])
LatticeDoc(ls) == JObj([lattice |-> LatticeArr(ls)])
Word(tok) == JObj([w |-> JStr(tok)])
Sentence(toks) == JObj([words |-> JArr([i \in 1..Len(toks) |-> Word(toks[i])])])
SentenceArr(ss) == JArr([i \in 1..Len(ss) |-> Sentence(ss[i])])
SentencesDoc(ss) == JObj([sentences |-> SentenceArr(ss)])
BothDoc(ls, ss) ==
    JObjIn(<<"lattice", "sentences">>,
           [lattice |-> LatticeArr(ls), sentences |-> SentenceArr(ss)])
BothDocSentencesFirst(ls, ss) ==
    JObjIn(<<"sentences", "lattice">>,
           [lattice |-> LatticeArr(ls), sentences |-> SentenceArr(ss)])

\* token lists of up to MaxTokens tokens
TokLists == UNION {[1..k -> Tokens] : k \in 0..MaxTokens}

\* lattice[] / rt[] / ws[] / cw[]: one list of tokens, and two tokens spread
\* over two ws, two rt or two lattice entries; empty lists at every level
LatticeShapes ==
    {<< << <<c>> >> >> : c \in TokLists}
    \cup {<< << <<<<a>>, <<b>>>> >> >> : a, b \in Tokens}
    \cup {<< << <<<<a>>>>, <<<<b>>>> >> >> : a, b \in Tokens}
    \cup {<< << <<<<a>>>> >>, << <<<<b>>>> >> >> : a, b \in Tokens}
    \cup {<<>>, << <<>> >>, << << <<>> >> >>, << <<>>, << <<<<Jin>>>> >> >>}
    \cup {<< << <<<<Jin, Tian, TianQi>>>> >> >>}

\* sentences[] / words[]
SentenceShapes ==
    {<<c>> : c \in TokLists}
    \cup {<<<<a>>, <<b>>>> : a, b \in Tokens}
    \cup {<<>>, <<<<>>, <<Tian>>>>}
    \cup {<<<<Hello, Space, World>>>>}

BothShapes ==
    {<< << << <<<<a>>>> >> >>, <<<<b>>>> >> : a, b \in Tokens}
    \cup {<< <<>>, <<<<b>>>> >> : b \in Tokens}

\* a lattice document whose only rt entry is the node r
LatticeDocOf(r) ==
    JObj([lattice |->
            JArr(<<JObj([json_1best |-> JObj([st |-> JObj([rt |-> JArr(<<r>>)])])])>>)])

\* documents with neither key
NeitherDocs ==
    {EmptyObj, JObj([x |-> JNum(1)]), JObj([words |-> JArr(<<Word(Jin)>>)]),
     JArr(<<>>), JArr(<<JStr(Jin)>>), JStr(<<>>), JStr(<<"x">>)}

\* results whose orderResult is absent or no JSON text, and documents whose
\* nodes have other shapes than the two schemas give them
OddNodes ==
    {JNull, JNum(1), JStr(<<"w">>), JStr(<<"x">>), JStr(<<>>), EmptyObj,
     EmptyArr, JObj([x |-> JNum(1)]), JObj([w |-> JNum(1)]),
     JObj([w |-> JNull]), JArr(<<JStr(<<"w">>)>>), JArr(<<JNull>>),
     JObjIn(<<"x", "w">>, [x |-> JNum(1), w |-> JStr(Jin)]),
     JObjIn(<<"w", "x">>, [x |-> JNum(1), w |-> JStr(Jin)])}

OddDocs ==
    {JNull, JNum(1), JStr(KeyText.lattice), JStr(KeyText.sentences),
     JArr(<<JStr(KeyText.lattice)>>), JArr(<<JStr(KeyText.sentences)>>)}
    \cup {JObj([lattice |-> n]) : n \in OddNodes}
    \cup {JObj([lattice |-> JArr(<<n>>)]) : n \in OddNodes}
    \cup {JObj([lattice |-> JArr(<<JObj([json_1best |-> n])>>)]) : n \in OddNodes}
    \cup {JObj([lattice |-> JArr(<<JObj([json_1best |-> JObj([st |-> n])])>>)]) :
             n \in OddNodes}
    \cup {JObj([lattice |->
                  JArr(<<JObj([json_1best |-> JObj([st |-> JObj([rt |-> n])])])>>)]) :
             n \in OddNodes}
    \cup {LatticeDocOf(JObj([ws |-> n])) : n \in OddNodes}
    \cup {LatticeDocOf(JObj([ws |-> JArr(<<n>>)])) : n \in OddNodes}
    \cup {LatticeDocOf(JObj([ws |-> JArr(<<JObj([cw |-> n])>>)])) : n \in OddNodes}
    \cup {LatticeDocOf(JObj([ws |-> JArr(<<JObj([cw |-> JArr(<<Cw(Jin), n>>)])>>)])) :
             n \in OddNodes}
    \cup {JObj([sentences |-> n]) : n \in OddNodes}
    \cup {JObj([sentences |-> JArr(<<n>>)]) : n \in OddNodes}
    \cup {JObj([sentences |-> JArr(<<JObj([words |-> n])>>)]) : n \in OddNodes}
    \cup {JObj([sentences |-> JArr(<<JObj([words |-> JArr(<<Word(Jin), n>>)])>>)]) :
             n \in OddNodes}

WellShapedDocs ==
    {LatticeDoc(ls) : ls \in LatticeShapes}
    \cup {SentencesDoc(ss) : ss \in SentenceShapes}
    \cup {BothDoc(p[1], p[2]) : p \in BothShapes}
    \cup {BothDocSentencesFirst(p[1], p[2]) : p \in BothShapes}
    \cup {LatticeDocOf(JObj([ws |-> JArr(<<JObj([cw |-> JArr(<<CwWpFirst(t)>>)])>>)])) :
             t \in Tokens}

\* every orderResult a result handed to save_results may hold
AllBodies ==
    {NoBody, BadText}
    \cup {Text(d) : d \in WellShapedDocs \cup NeitherDocs \cup OddDocs}

\* the orderResult of the status-4 answers of the service
Bodies ==
    {Text(LatticeDoc(<< << <<<<Jin, Tian, TianQi>>>> >> >>)), Text(EmptyObj)}

\* ------------------------------------------------------------ responses
NoResp == [kind |-> "none", http |-> 0, json |-> FALSE, code |-> 0,
           status |-> NoStatus, body |-> NoBody, orderId |-> NoOrder]

Resp(k, h, j, c, s, b, o) ==
    [kind |-> k, http |-> h, json |-> j, code |-> c, status |-> s,
     body |-> b, orderId |-> o]

\* What requests.get(url) can produce; the status queries of a transcribe
\* call are answered with one code of the table and one it does not hold.
QueryCodes == {10006, UnknownCode}
QueryResponses ==
    {Resp("exc", 0, FALSE, 0, NoStatus, NoBody, NoOrder)}            \* RequestException
    \cup {Resp("http", 500, FALSE, 0, NoStatus, NoBody, NoOrder)}    \* HTTP status # 200
    \cup {Resp("http", 200, FALSE, 0, NoStatus, NoBody, NoOrder)}    \* body is not JSON
    \cup {Resp("http", 200, TRUE, c, NoStatus, NoBody, NoOrder) : c \in QueryCodes}
    \cup {Resp("http", 200, TRUE, 0, s, NoBody, NoOrder) :
              s \in {NoStatus, 0, 1, 2, 3, 5, 6}}
    \cup {Resp("http", 200, TRUE, 0, 4, b, NoOrder) : b \in Bodies}

\* the same, with every code of the table
AnyCodeResponses ==
    QueryResponses
    \cup {Resp("http", 200, TRUE, c, NoStatus, NoBody, NoOrder) : c \in FailureCodes}

\* What requests.post(url, ...) can produce.
UploadResponses ==
    {Resp("exc", 0, FALSE, 0, NoStatus, NoBody, NoOrder)}
    \cup {Resp("http", 500, FALSE, 0, NoStatus, NoBody, NoOrder)}
    \cup {Resp("http", 200, FALSE, 0, NoStatus, NoBody, NoOrder)}
    \cup {Resp("http", 200, TRUE, c, NoStatus, NoBody, NoOrder) : c \in FailureCodes}
    \cup {Resp("http", 200, TRUE, 0, NoStatus, NoBody, o) : o \in Orders \cup {NoOrder}}

IsBusy(r) == r.kind = "http" /\ r.http = 200 /\ r.json /\ r.code = 0
             /\ r.status \in {0, 1, 3}
IsComplete(r) == r.kind = "http" /\ r.http = 200 /\ r.json /\ r.code = 0
                 /\ r.status = 4
IsFailed(r) == r.kind = "http" /\ r.http = 200 /\ r.json /\ r.code = 0
               /\ r.status = 5
\* non-200 HTTP status or request exception
IsTransportFailure(r) == r.kind = "exc" \/ r.http # 200

NoErr == [type |-> "none", msg |-> "none"]
Error(t, m) == [type |-> t, msg |-> m]

\* ERROR_CODES.get(code, "unknown error")
ErrorDescriptionNoDefault(c) ==
    IF c \in DOMAIN ERROR_CODES THEN ERROR_CODES[c] ELSE "None"

ErrorDescription(c) ==
    IF c \in DOMAIN ERROR_CODES THEN ERROR_CODES[c] ELSE "unknown error"

\* Exception(f"API error: {error_msg} (code: {code})"), line 159: the message
\* holds the description and the code
ApiError(c) ==
    [type |-> "Exception", msg |-> "api", desc |-> ErrorDescription(c),
     code |-> c]

\* the warning of line 217, or none
NoWarning == [desc |-> "none", code |-> 0]
PollWarning(r) ==
    IF r.kind = "http" /\ r.http = 200 /\ r.json /\ r.code # 0
    THEN [desc |-> ErrorDescription(r.code), code |-> r.code]
    ELSE NoWarning
NoUrl == [appId |-> appid, signa |-> <<>>, ts |-> -1, orderId |-> NoOrder,
          resultType |-> result_type]

\* --------------------------------------------------------------- transcribe
\* os.makedirs(output_dir, exist_ok=True), line 262: output_dir is a directory
\* or can be made one, is the empty string, or is the path of a regular file
OutputDirs == {"creatable", "empty", "is_a_file"}
Makedirs(d) ==
    IF d = "empty" THEN Error("FileNotFoundError", "makedirs")
    ELSE IF d = "is_a_file" THEN Error("FileExistsError", "makedirs")
    ELSE NoErr

\* ------------------------------------------------------------ upload_file
\* What upload_file does with the answer r to its POST (lines 140-162):
\* the exception it raises, or none when it returns r.
UploadOutcomeNoCodeCheck(r) ==
    IF r.kind = "exc" THEN Error("RequestException", "request")
    ELSE IF r.http # 200 THEN Error("Exception", "http")
    ELSE IF ~r.json THEN Error("JSONDecodeError", "json")
    ELSE NoErr

UploadOutcome(r) ==
    IF r.kind = "exc" THEN Error("RequestException", "request")  \* re-raised
    ELSE IF r.http # 200 THEN Error("Exception", "http")
    ELSE IF ~r.json THEN Error("JSONDecodeError", "json")
    ELSE IF r.code # 0 THEN ApiError(r.code)
    ELSE IF r.orderId = NoOrder THEN Error("KeyError", "content") \* line 161
    ELSE NoErr

\* os.path.exists(file_path), line 106
PathExistsUnchecked(f) == TRUE

PathExists(f) == f.exists

\* The request upload_file sends: built from self.ts and self.signa as they are.
\* params are the query parameters (fileName is left out); the other fields
\* are history: the call that sent it and the origin of its signature.
UploadRequest(f) ==
    [kind |-> "upload",
     params |-> [appId |-> appid, signa |-> signa, ts |-> ts,
                 fileSize |-> f.size, duration |-> EstimateDuration(f.size)],
     call |-> call, sigGen |-> sigHist.gen, sigCall |-> sigHist.call,
     sigSec |-> sigHist.sec]

\* the (ts, signa) pair a request carries
Pair(q) == <<q.params.ts, q.params.signa>>

\* ------------------------------------------------------ the polling loop
\* The signature get_transcription_result works with (line 179).
PollSignatureKept(t) == [ts |-> ts, signa |-> signa]

PollSignature(t) == UpdateTimestamp(t)

\* The status URL, built once before the loop (lines 180-195).
StatusUrl(sig, res) ==
    [appId |-> appid, signa |-> sig.signa, ts |-> sig.ts,
     orderId |-> res.orderId, resultType |-> result_type]

\* The request a status query carries: requests.get(url), line 203.
QueryRequestResigned(u) ==
    [kind |-> "query",
     params |-> [u EXCEPT !.ts = UpdateTimestamp(now).ts,
                          !.signa = UpdateTimestamp(now).signa],
     call |-> call, sigGen |-> Len(log), sigCall |-> call,
     sigSec |-> now \div TicksPerSecond]

QueryRequest(u) ==
    [kind |-> "query", params |-> u,
     call |-> call, sigGen |-> sigHist.gen, sigCall |-> sigHist.call,
     sigSec |-> sigHist.sec]

\* while attempts < self.max_retry
LoopConditionInclusive(att, mr) == att <= mr

LoopCondition(att, mr) == att < mr

\* One pass through the body of the loop for the response r, attempts being
\* att before it.  Every `raise` of the body sits inside the try block and is
\* caught by `except Exception` (line 243), which counts it and sleeps.
CountedTwice(att) == [next |-> "loop", attempts |-> att + 2, sleeps |-> 1]

Counted(att) == [next |-> "loop", attempts |-> att + 1, sleeps |-> 1]

\* The answer r does not get as far as the status test of line 228.
NoStatusRead(r) ==
    \/ r.kind = "exc"            \* requests.get raises
    \/ r.http # 200             \* lines 206-210
    \/ ~r.json                  \* response.json() raises
    \/ r.code # 0               \* lines 215-220
    \/ r.status = NoStatus      \* line 223 raises KeyError

PollIterationDone2(r, att) ==
    IF NoStatusRead(r) THEN Counted(att)
    ELSE IF r.status \in {2, 4} THEN
        [next |-> "return", attempts |-> att, sleeps |-> 0]
    ELSE IF r.status \in {0, 1, 3} THEN
        [next |-> "loop", attempts |-> att, sleeps |-> 1]
    ELSE Counted(att)

PollIterationPartialCounted(r, att) ==
    IF NoStatusRead(r) THEN Counted(att)
    ELSE IF r.status = 4 THEN
        [next |-> "return", attempts |-> att, sleeps |-> 0]
    ELSE IF r.status \in {0, 1} THEN
        [next |-> "loop", attempts |-> att, sleeps |-> 1]
    ELSE Counted(att)

PollIterationBusyCounted(r, att) ==
    IF NoStatusRead(r) THEN Counted(att)
    ELSE IF r.status = 4 THEN
        [next |-> "return", attempts |-> att, sleeps |-> 0]
    ELSE Counted(att)

PollIterationBusyNoSleep(r, att) ==
    IF NoStatusRead(r) THEN Counted(att)
    ELSE IF r.status = 4 THEN
        [next |-> "return", attempts |-> att, sleeps |-> 0]
    ELSE IF r.status \in {0, 1, 3} THEN
        [next |-> "loop", attempts |-> att, sleeps |-> 0]
    ELSE Counted(att)

PollIterationFailedUncounted(r, att) ==
    IF NoStatusRead(r) THEN Counted(att)
    ELSE IF r.status = 4 THEN
        [next |-> "return", attempts |-> att, sleeps |-> 0]
    ELSE IF r.status \in {0, 1, 3, 5} THEN
        [next |-> "loop", attempts |-> att, sleeps |-> 1]
    ELSE Counted(att)

PollIteration(r, att) ==
    IF NoStatusRead(r) THEN Counted(att)                   \* counted, line 208/218/245
    ELSE IF r.status = 4 THEN                              \* return result
        [next |-> "return", attempts |-> att, sleeps |-> 0]
    ELSE IF r.status \in {0, 1, 3} THEN                    \* sleep, continue
        [next |-> "loop", attempts |-> att, sleeps |-> 1]
    ELSE IF r.status = 5 THEN Counted(att)                 \* raise, caught at 243
    ELSE Counted(att)                                      \* unknown status

\* ------------------------------------------- threads sharing the client
Threads == 1..MaxThreads

\* the locals of a thread: the file of its transcribe call, the signa and ts
\* entries of the params dict it is building, the value of time.time() it
\* has read (line 74), `data` of _generate_signa (the ts it was computed
\* from), order_id, attempts and the result its poll returned
NoParams == [signa |-> <<>>, ts |-> -1]
IdleThread ==
    [at |-> "idle", file |-> [exists |-> FALSE, size |-> 0], params |-> NoParams,
     clock |-> -1, data |-> -1, order_id |-> NoOrder, attempts |-> 0,
     nbusy |-> 0, result |-> NoResp]

\* ---------------------------------------------------------------- Init
Init ==
    /\ now = 0
    /\ ts = UpdateTimestamp(0).ts
    /\ signa = UpdateTimestamp(0).signa
    /\ sigHist = [gen |-> 0, call |-> 0, sec |-> 0]
    /\ max_retry \in RetryBudgets
    /\ pc = "idle"
    /\ call = 0
    /\ file = [exists |-> FALSE, size |-> 0]
    /\ upload_result = NoResp
    /\ url = NoUrl
    /\ attempts = 0
    /\ nq = 0
    /\ nbusy = 0
    /\ ncounted = 0
    /\ sleeps = 0
    /\ lastResp = NoResp
    /\ warning = NoWarning
    /\ postResp = NoResp
    /\ prevAttempts = 0
    /\ onlyTransport = TRUE
    /\ sentSec = 0
    /\ ret = NoResp
    /\ err = NoErr
    /\ files = <<>>
    /\ log = <<>>
    /\ used = {}
    /\ is_processing = FALSE
    /\ transcribe_button = "normal"
    /\ copy_button = "disabled"
    /\ mainPc = "idle"
    /\ workers = <<>>
    /\ afterq = <<>>
    /\ threads = [t \in Threads |-> IdleThread]

\* -------------------------------------------------------------- actions
Tick ==
    /\ now < MaxClock
    /\ now' = now + 1
    /\ UNCHANGED <<ts, signa, sigHist, max_retry, pc, call, file,
                   upload_result, url, attempts, nq, nbusy, ncounted, sleeps,
                   lastResp, warning, postResp, prevAttempts, onlyTransport,
                   sentSec, ret, err, files, log, used>>
    /\ UNCHANGED <<guiVars, threadVars>>

\* transcribe(file_path, output_dir) is called; the previous call, if any, has
\* ended.  Lines 259-262: the output directory is made, or os.makedirs raises.
TranscribeBegin ==
    /\ pc \in {"idle", "done", "raised"}
    /\ call < MaxCalls
    /\ \E f \in Files : file' = f
    /\ call' = call + 1
    /\ \E d \in OutputDirs :
          /\ pc' = IF Makedirs(d) = NoErr THEN "upload" ELSE "raised"
          /\ err' = Makedirs(d)
    /\ upload_result' = NoResp
    /\ url' = NoUrl
    /\ attempts' = 0
    /\ nq' = 0
    /\ nbusy' = 0
    /\ ncounted' = 0
    /\ sleeps' = 0
    /\ lastResp' = NoResp
    /\ warning' = NoWarning
    /\ postResp' = NoResp
    /\ prevAttempts' = 0
    /\ onlyTransport' = TRUE
    /\ sentSec' = 0
    /\ ret' = NoResp
    /\ log' = <<>>
    /\ used' = used \cup {Pair(log[i]) : i \in 1..Len(log)}
    /\ sigHist' = [sigHist EXCEPT !.gen = 0]
    /\ files' = <<>>
    /\ UNCHANGED <<now, ts, signa, max_retry>>
    /\ UNCHANGED <<guiVars, threadVars>>

\* upload_file(file_path); opens tells whether open(file_path, 'rb') of line
\* 131 succeeds: a path that exists may name a directory, a socket or a file
\* the caller may not read, and the OSError is not caught (line 140)
UploadFile ==
    /\ pc = "upload"
    /\ IF ~PathExists(file)
       THEN /\ pc' = "raised"
            /\ err' = Error("FileNotFoundError", "file")
            /\ UNCHANGED <<upload_result, log, sentSec, postResp>>
       ELSE \E opens \in BOOLEAN, r \in UploadResponses :
            IF ~opens
            THEN /\ pc' = "raised"
                 /\ err' = Error("OSError", "open")
                 /\ UNCHANGED <<upload_result, log, sentSec, postResp>>
            ELSE /\ log' = Append(log, UploadRequest(file))
                 /\ postResp' = r
                 /\ sentSec' = now \div TicksPerSecond
                 /\ IF UploadOutcome(r) = NoErr
                    THEN /\ pc' = "poll"
                         /\ upload_result' = r
                         /\ UNCHANGED err
                    ELSE /\ pc' = "raised"
                         /\ err' = UploadOutcome(r)
                         /\ UNCHANGED upload_result
    /\ UNCHANGED <<now, ts, signa, sigHist, max_retry, call, file, url,
                   attempts, nq, nbusy, ncounted, sleeps, lastResp, warning,
                   prevAttempts, onlyTransport, ret, files, used>>
    /\ UNCHANGED <<guiVars, threadVars>>

\* get_transcription_result, lines 179-199: sign, build the URL, attempts = 0
PollBegin ==
    /\ pc = "poll"
    /\ ts' = PollSignature(now).ts
    /\ signa' = PollSignature(now).signa
    /\ sigHist' = [gen |-> Len(log), call |-> call,
                   sec |-> now \div TicksPerSecond]
    /\ url' = StatusUrl(PollSignature(now), upload_result)
    /\ attempts' = 0
    /\ pc' = "loop"
    /\ UNCHANGED <<now, max_retry, call, file, upload_result, nq, nbusy,
                   ncounted, sleeps, lastResp, warning, postResp, prevAttempts,
                   onlyTransport, sentSec, ret, err, files, log, used>>
    /\ UNCHANGED <<guiVars, threadVars>>

\* one pass of the while loop: a status query and the handling of its answer,
\* which is one of answers
PollQueryWith(answers) ==
    /\ pc = "loop"
    /\ LoopCondition(attempts, max_retry)
    /\ \E r \in answers :
        /\ IsBusy(r) => nbusy < MaxBusy
        /\ log' = Append(log, QueryRequest(url))
        /\ sentSec' = now \div TicksPerSecond
        /\ nq' = nq + 1
        /\ lastResp' = r
        /\ warning' = PollWarning(r)
        /\ prevAttempts' = attempts
        /\ attempts' = PollIteration(r, attempts).attempts
        /\ sleeps' = sleeps + PollIteration(r, attempts).sleeps
        /\ nbusy' = IF IsBusy(r) THEN nbusy + 1 ELSE nbusy
        /\ ncounted' = IF ~IsBusy(r) /\ ~IsComplete(r) THEN ncounted + 1
                       ELSE ncounted
        /\ onlyTransport' = (onlyTransport /\ IsTransportFailure(r))
        /\ IF PollIteration(r, attempts).next = "return"
           THEN /\ ret' = r
                /\ pc' = "save"
           ELSE /\ pc' = "loop"
                /\ UNCHANGED ret
    /\ UNCHANGED <<now, ts, signa, sigHist, max_retry, call, file,
                   upload_result, url, postResp, err, files, used>>
    /\ UNCHANGED <<guiVars, threadVars>>

PollQuery == PollQueryWith(QueryResponses)

\* the loop condition fails: raise TimeoutError (lines 248-249)
PollExhausted ==
    /\ pc = "loop"
    /\ ~LoopCondition(attempts, max_retry)
    /\ pc' = "raised"
    /\ err' = Error("TimeoutError", "timeout")
    /\ UNCHANGED <<now, ts, signa, sigHist, max_retry, call, file,
                   upload_result, url, attempts, nq, nbusy, ncounted, sleeps,
                   lastResp, warning, postResp, prevAttempts, onlyTransport,
                   sentSec, ret, files, log, used>>
    /\ UNCHANGED <<guiVars, threadVars>>

\* save_results(result, ...) for call c: the files it writes, in the order it
\* writes them, and the exception it ends with.  io tells which open() fails.
JsonFile(res, c) == [call |-> c, type |-> "json", content |-> res]
TextFile(res, c) ==
    [call |-> c, type |-> "txt", content |-> ExtractTranscriptText(res).value]

SaveOutcomeTextFirst(res, io, c) ==
    IF ExtractTranscriptText(res).raised
    THEN [files |-> <<>>, err |-> Error("Exception", "extract")]
    ELSE IF io = "text_fails"
    THEN [files |-> <<>>, err |-> Error("OSError", io)]
    ELSE IF io = "json_fails"
    THEN [files |-> <<TextFile(res, c)>>, err |-> Error("OSError", io)]
    ELSE [files |-> <<TextFile(res, c), JsonFile(res, c)>>, err |-> NoErr]

SaveOutcome(res, io, c) ==
    IF io = "json_fails"                                   \* line 286
    THEN [files |-> <<>>, err |-> Error("OSError", io)]
    ELSE IF ExtractTranscriptText(res).raised              \* line 292
    THEN [files |-> <<JsonFile(res, c)>>, err |-> Error("Exception", "extract")]
    ELSE IF io = "text_fails"                              \* line 293
    THEN [files |-> <<JsonFile(res, c)>>, err |-> Error("OSError", io)]
    ELSE [files |-> <<JsonFile(res, c), TextFile(res, c)>>, err |-> NoErr]

\* save_results (called by transcribe, line 269, or by its caller): the JSON
\* dump, then the text file; either open() may fail.
SaveResults ==
    /\ pc = "save"
    /\ \E io \in {"ok", "json_fails", "text_fails"} :
        /\ files' = files \o SaveOutcome(ret, io, call).files
        /\ IF SaveOutcome(ret, io, call).err = NoErr
           THEN pc' = "done" /\ UNCHANGED err
           ELSE pc' = "raised" /\ err' = SaveOutcome(ret, io, call).err
    /\ UNCHANGED <<now, ts, signa, sigHist, max_retry, call, file,
                   upload_result, url, attempts, nq, nbusy, ncounted, sleeps,
                   lastResp, warning, postResp, prevAttempts, onlyTransport,
                   sentSec, ret, log, used>>
    /\ UNCHANGED <<guiVars, threadVars>>

Next ==
    \/ Tick
    \/ TranscribeBegin
    \/ UploadFile
    \/ PollBegin
    \/ PollQuery
    \/ PollExhausted
    \/ SaveResults

Spec == Init /\ [][Next]_vars

\* The service answers and the caller runs: a poll that can step does step.
LiveSpec == Spec /\ WF_vars(PollBegin \/ PollQuery \/ PollExhausted)

\* ------------------------------------------- the methods called directly
\* upload_file(file_path), get_transcription_result(upload_result) and
\* save_results(result, ...) are public methods: a caller hands them any file,
\* any upload result and any result, and the service answers a status query
\* with any code.
Results ==
    {Resp("http", 200, TRUE, 0, 4, b, NoOrder) : b \in AllBodies}

DirectInit ==
    /\ now = 0
    /\ ts = UpdateTimestamp(0).ts
    /\ signa = UpdateTimestamp(0).signa
    /\ sigHist = [gen |-> 0, call |-> 0, sec |-> 0]
    /\ max_retry \in {3}
    /\ call = 0
    /\ url = NoUrl
    /\ attempts = 0
    /\ nq = 0
    /\ nbusy = 0
    /\ ncounted = 0
    /\ sleeps = 0
    /\ lastResp = NoResp
    /\ warning = NoWarning
    /\ postResp = NoResp
    /\ prevAttempts = 0
    /\ onlyTransport = TRUE
    /\ sentSec = 0
    /\ err = NoErr
    /\ files = <<>>
    /\ log = <<>>
    /\ used = {}
    /\ is_processing = FALSE
    /\ transcribe_button = "normal"
    /\ copy_button = "disabled"
    /\ mainPc = "idle"
    /\ workers = <<>>
    /\ afterq = <<>>
    /\ threads = [t \in Threads |-> IdleThread]
    /\ \/ /\ pc = "save"
          /\ ret \in Results
          /\ upload_result = NoResp
          /\ file = [exists |-> TRUE, size |-> 0]
       \/ /\ pc = "upload"
          /\ ret = NoResp
          /\ upload_result = NoResp
          /\ file \in AllFiles
       \/ /\ pc = "poll"
          /\ ret = NoResp
          /\ upload_result \in
                {Resp("http", 200, TRUE, 0, NoStatus, NoBody, o) : o \in Orders}
          /\ file = [exists |-> TRUE, size |-> 0]

\* get_transcription_result is entered by its direct caller, not by the
\* return of upload_file
DirectPollBegin == log = <<>> /\ PollBegin

DirectPollQuery == PollQueryWith(AnyCodeResponses)

DirectNext ==
    \/ UploadFile
    \/ SaveResults
    \/ DirectPollBegin
    \/ DirectPollQuery
    \/ PollExhausted

DirectSpec == DirectInit /\ [][DirectNext]_vars

\* ------------------------------------------------ the application window
\* The main thread runs the handlers of the window one at a time; every
\* worker thread runs run_transcription.  client.transcribe is seen by its
\* caller through the way it ends: it returns after its save_results call, or
\* it raises one of the errors of os.makedirs, upload, polling or saving.
TranscribeErrors ==
    {"FileNotFoundError", "FileExistsError", "RequestException", "Exception",
     "JSONDecodeError", "KeyError", "TimeoutError", "OSError"}
TranscribeOutcomes == {"returned"} \cup TranscribeErrors

\* the numbers of save_results calls a client.transcribe call ending with o
\* can have made: an OSError comes from open() in upload_file (line 131),
\* before save_results is reached, or from open() in save_results (line 269)
SavesOf(o) ==
    IF o = "returned" THEN {1} ELSE IF o = "OSError" THEN {0, 1} ELSE {0}

NewWorker == [at |-> "client", outcome |-> "none", saves |-> 0]

\* self.is_processing = True, line 622
BusyFlagAtSpawnUnset == FALSE

BusyFlagAtSpawn == TRUE

\* start_transcription up to its input checks (lines 599-620); the button
\* calls it only while it is enabled (line 468)
StartCheck ==
    /\ mainPc = "idle"
    /\ transcribe_button = "normal"
    /\ Len(workers) < MaxJobs
    /\ \E valid \in BOOLEAN :
          IF is_processing \/ ~valid
          THEN UNCHANGED mainPc                  \* return
          ELSE mainPc' = "start"
    /\ UNCHANGED <<is_processing, transcribe_button, copy_button, workers, afterq>>
    /\ UNCHANGED <<clientVars, threadVars>>

\* start_transcription, lines 622-630: set the flag, disable the buttons,
\* start the worker thread
StartSpawn ==
    /\ mainPc = "start"
    /\ is_processing' = BusyFlagAtSpawn
    /\ transcribe_button' = "disabled"
    /\ copy_button' = "disabled"
    /\ workers' = Append(workers, NewWorker)
    /\ mainPc' = "idle"
    /\ UNCHANGED afterq
    /\ UNCHANGED <<clientVars, threadVars>>

\* the event loop runs the oldest callback handed to root.after: the main
\* loop between two handlers, or the loop the confirmation dialog of
\* on_closing runs while it waits for the answer (line 699)
RunCallback ==
    /\ mainPc \in {"idle", "asking"}
    /\ afterq # <<>>
    /\ afterq' = Tail(afterq)
    /\ transcribe_button' = IF Head(afterq) = "enable" THEN "normal"   \* line 656
                            ELSE transcribe_button
    /\ copy_button' = IF Head(afterq) = "update_results" THEN "normal" \* line 663
                      ELSE copy_button
    /\ UNCHANGED <<is_processing, mainPc, workers>>
    /\ UNCHANGED <<clientVars, threadVars>>

\* run_transcription, lines 635-641: the client is constructed
WorkerConstruct(w) ==
    /\ workers[w].at = "client"
    /\ workers' = [workers EXCEPT ![w].at = "transcribe"]
    /\ UNCHANGED <<is_processing, transcribe_button, copy_button, mainPc, afterq>>
    /\ UNCHANGED <<clientVars, threadVars>>

\* line 644: client.transcribe ends
WorkerTranscribe(w) ==
    /\ workers[w].at = "transcribe"
    /\ \E o \in TranscribeOutcomes : \E n \in SavesOf(o) :
          workers' = [workers EXCEPT
                         ![w].at = IF o = "returned" THEN "save" ELSE "except",
                         ![w].outcome = o,
                         ![w].saves = n]
    /\ UNCHANGED <<is_processing, transcribe_button, copy_button, mainPc, afterq>>
    /\ UNCHANGED <<clientVars, threadVars>>

\* line 645: client.save_results is called with the result
WorkerSave(w) ==
    /\ workers[w].at = "save"
    /\ \E ok \in BOOLEAN :
          workers' = [workers EXCEPT
                         ![w].at = IF ok THEN "notify" ELSE "except",
                         ![w].outcome = IF ok THEN "returned" ELSE "OSError",
                         ![w].saves = @ + 1]
    /\ UNCHANGED <<is_processing, transcribe_button, copy_button, mainPc, afterq>>
    /\ UNCHANGED <<clientVars, threadVars>>

\* root.after(0, callback) called by a worker: the callback is handed to the
\* main loop; once the window is destroyed the call raises
After(q, callback) == IF mainPc = "closed" THEN q ELSE Append(q, callback)

\* line 648, and lines 650-653 of the except branch.  When line 648 raises
\* the except branch is entered; when line 653 raises the exception leaves
\* through the finally block.
WorkerNotify(w) ==
    /\ workers[w].at \in {"notify", "except"}
    /\ afterq' = After(afterq, IF workers[w].at = "notify" THEN "update_results"
                               ELSE "failed")
    /\ workers' = [workers EXCEPT
                      ![w].at = IF mainPc = "closed" /\ workers[w].at = "notify"
                                THEN "except" ELSE "finally"]
    /\ UNCHANGED <<is_processing, transcribe_button, copy_button, mainPc>>
    /\ UNCHANGED <<clientVars, threadVars>>

\* line 655
WorkerReleaseOnSuccess(w) ==
    /\ workers[w].at = "finally"
    /\ is_processing' = IF workers[w].outcome = "returned" THEN FALSE
                         ELSE is_processing
    /\ workers' = [workers EXCEPT ![w].at = "enable"]
    /\ UNCHANGED <<transcribe_button, copy_button, mainPc, afterq>>
    /\ UNCHANGED <<clientVars, threadVars>>

WorkerRelease(w) ==
    /\ workers[w].at = "finally"
    /\ is_processing' = FALSE
    /\ workers' = [workers EXCEPT ![w].at = "enable"]
    /\ UNCHANGED <<transcribe_button, copy_button, mainPc, afterq>>
    /\ UNCHANGED <<clientVars, threadVars>>

\* line 656, the last statement of the thread
WorkerEnable(w) ==
    /\ workers[w].at = "enable"
    /\ afterq' = After(afterq, "enable")
    /\ workers' = [workers EXCEPT ![w].at = "ended"]
    /\ UNCHANGED <<is_processing, transcribe_button, copy_button, mainPc>>
    /\ UNCHANGED <<clientVars, threadVars>>

\* root.destroy() (lines 700, 702): the buttons are destroyed, the callbacks
\* not yet run are dropped and the main loop ends
Destroy ==
    /\ mainPc' = "closed"
    /\ afterq' = <<>>
    /\ transcribe_button' = "destroyed"
    /\ copy_button' = "destroyed"

\* on_closing (lines 696-702), the handler of WM_DELETE_WINDOW, up to its
\* read of is_processing (line 698): while a job runs the confirmation dialog
\* is opened (line 699), otherwise the window is destroyed (line 702)
OnClosing ==
    /\ mainPc = "idle"
    /\ IF is_processing
       THEN /\ mainPc' = "asking"
            /\ UNCHANGED <<afterq, transcribe_button, copy_button>>
       ELSE Destroy
    /\ UNCHANGED <<is_processing, workers>>
    /\ UNCHANGED <<clientVars, threadVars>>

\* on_closing, lines 699-700: the user answers the dialog, whatever
\* is_processing has become in the meantime; the dialog is modal, so no other
\* handler of the window has run since it opened
OnClosingAnswer ==
    /\ mainPc = "asking"
    /\ \E yes \in BOOLEAN :
          IF yes
          THEN Destroy
          ELSE /\ mainPc' = "idle"
               /\ UNCHANGED <<afterq, transcribe_button, copy_button>>
    /\ UNCHANGED <<is_processing, workers>>
    /\ UNCHANGED <<clientVars, threadVars>>

GuiNext ==
    \/ StartCheck
    \/ StartSpawn
    \/ RunCallback
    \/ OnClosing
    \/ OnClosingAnswer
    \/ \E w \in DOMAIN workers : WorkerConstruct(w)
    \/ \E w \in DOMAIN workers : WorkerTranscribe(w)
    \/ \E w \in DOMAIN workers : WorkerSave(w)
    \/ \E w \in DOMAIN workers : WorkerNotify(w)
    \/ \E w \in DOMAIN workers : WorkerRelease(w)
    \/ \E w \in DOMAIN workers : WorkerEnable(w)

GuiSpec == Init /\ [][GuiNext]_vars

\* The main thread runs its handler to the end and its loop runs the callbacks
\* handed to it; a worker runs every statement of run_transcription other
\* than the client.transcribe call, which ends only if its polling does.
\* The workers are daemon threads (line 630): once the main loop has ended
\* the process exits and nothing says how far a worker still gets.
Open == mainPc # "closed"

GuiLiveSpec ==
    /\ GuiSpec
    /\ WF_vars(StartSpawn)
    /\ WF_vars(RunCallback)
    /\ WF_vars(Open /\ \E w \in DOMAIN workers : WorkerConstruct(w))
    /\ WF_vars(Open /\ \E w \in DOMAIN workers : WorkerSave(w))
    /\ WF_vars(Open /\ \E w \in DOMAIN workers : WorkerNotify(w))
    /\ WF_vars(Open /\ \E w \in DOMAIN workers : WorkerRelease(w))
    /\ WF_vars(Open /\ \E w \in DOMAIN workers : WorkerEnable(w))

\* ------------------------------------- one client called by several threads
\* LFASRClient has no lock: threads that call transcribe on one instance
\* share self.ts and self.signa, and a thread switch can fall between any two
\* reads or writes of them, between a read of the clock and the store of its
\* value, and while a thread waits for the service.  Every step below holds
\* at most one access to the shared fields, one request sent, one answer
\* handled or one file written.
ClientRest ==
    <<sigHist, max_retry, pc, call, file, upload_result, url, attempts, nq, nbusy,
      ncounted, sleeps, lastResp, warning, postResp, prevAttempts, onlyTransport,
      sentSec, ret, err, used>>

\* the files the threads are called with: a missing one and one of one second
ThreadFiles ==
    {[exists |-> FALSE, size |-> 0], [exists |-> TRUE, size |-> BytesPerSecond]}

\* the request a thread sends with the params it has built
ThreadRequest(t, kind, prm) ==
    [kind |-> kind, params |-> prm, thread |-> t]

\* transcribe(file_path, output_dir) is called in thread t
ThreadBegin(t) ==
    /\ threads[t].at = "idle"
    /\ \E f \in ThreadFiles, d \in OutputDirs :
          threads' = [threads EXCEPT
                         ![t].at = IF Makedirs(d) = NoErr THEN "upload" ELSE "ended",
                         ![t].file = f]
    /\ UNCHANGED <<now, ts, signa, log, files, ClientRest, guiVars>>

\* upload_file, lines 106-117: the file is checked, params reads self.signa
ThreadUploadSigna(t) ==
    /\ threads[t].at = "upload"
    /\ IF ~PathExists(threads[t].file)
       THEN threads' = [threads EXCEPT ![t].at = "ended"]
       ELSE threads' = [threads EXCEPT ![t].at = "upload_ts",
                                       ![t].params.signa = signa]
    /\ UNCHANGED <<now, ts, signa, log, files, ClientRest, guiVars>>

\* upload_file, lines 118-132: params reads self.ts, the URL is built, the
\* file is opened and read
ThreadUploadTs(t) ==
    /\ threads[t].at = "upload_ts"
    /\ \E opens \in BOOLEAN :
          IF opens
          THEN threads' = [threads EXCEPT ![t].at = "upload_send",
                                          ![t].params.ts = ts]
          ELSE threads' = [threads EXCEPT ![t].at = "ended",
                                          ![t].params = NoParams]
    /\ UNCHANGED <<now, ts, signa, log, files, ClientRest, guiVars>>

\* upload_file, line 135: requests.post sends the request built from params
ThreadUploadSend(t) ==
    /\ threads[t].at = "upload_send"
    /\ log' = Append(log, ThreadRequest(t, "upload",
                  [appId |-> appid, signa |-> threads[t].params.signa,
                   ts |-> threads[t].params.ts,
                   fileSize |-> threads[t].file.size,
                   duration |-> EstimateDuration(threads[t].file.size)]))
    /\ threads' = [threads EXCEPT ![t].at = "upload_wait"]
    /\ UNCHANGED <<now, ts, signa, files, ClientRest, guiVars>>

\* upload_file, lines 140-162: the answer of the service is handled
ThreadUploadAnswer(t) ==
    /\ threads[t].at = "upload_wait"
    /\ \E r \in UploadResponses :
          IF UploadOutcome(r) = NoErr
          THEN threads' = [threads EXCEPT ![t].at = "sign_clock",
                                          ![t].params = NoParams,
                                          ![t].order_id = r.orderId]
          ELSE threads' = [threads EXCEPT ![t].at = "ended",
                                          ![t].params = NoParams]
    /\ UNCHANGED <<now, ts, signa, log, files, ClientRest, guiVars>>

\* update_timestamp, line 74: time.time() is evaluated
ThreadSignClock(t) ==
    /\ threads[t].at = "sign_clock"
    /\ threads' = [threads EXCEPT ![t].at = "sign_ts",
                                  ![t].clock = UpdateTimestamp(now).ts]
    /\ UNCHANGED <<now, ts, signa, log, files, ClientRest, guiVars>>

\* update_timestamp, line 74: self.ts is written
ThreadSignTs(t) ==
    /\ threads[t].at = "sign_ts"
    /\ ts' = threads[t].clock
    /\ threads' = [threads EXCEPT ![t].at = "sign_data", ![t].clock = -1]
    /\ UNCHANGED <<now, signa, log, files, ClientRest, guiVars>>

\* _generate_signa, line 79: self.ts is read into data
ThreadSignData(t) ==
    /\ threads[t].at = "sign_data"
    /\ threads' = [threads EXCEPT ![t].at = "sign_signa", ![t].data = ts]
    /\ UNCHANGED <<now, ts, signa, log, files, ClientRest, guiVars>>

\* update_timestamp, line 75: self.signa is written
ThreadSignSigna(t) ==
    /\ threads[t].at = "sign_signa"
    /\ signa' = GenerateSigna(appid, secret_key, threads[t].data)
    /\ threads' = [threads EXCEPT ![t].at = "query_signa", ![t].data = -1]
    /\ UNCHANGED <<now, ts, log, files, ClientRest, guiVars>>

\* get_transcription_result, lines 180-186: params reads self.signa
ThreadQuerySigna(t) ==
    /\ threads[t].at = "query_signa"
    /\ threads' = [threads EXCEPT ![t].at = "query_ts", ![t].params.signa = signa]
    /\ UNCHANGED <<now, ts, signa, log, files, ClientRest, guiVars>>

\* get_transcription_result, lines 187-199: params reads self.ts, the URL is
\* built, attempts = 0
ThreadQueryTs(t) ==
    /\ threads[t].at = "query_ts"
    /\ threads' = [threads EXCEPT ![t].at = "loop", ![t].params.ts = ts,
                                  ![t].attempts = 0]
    /\ UNCHANGED <<now, ts, signa, log, files, ClientRest, guiVars>>

\* lines 201-203 in thread t: the loop condition holds, requests.get sends
ThreadQuerySend(t) ==
    /\ threads[t].at = "loop"
    /\ LoopCondition(threads[t].attempts, max_retry)
    /\ log' = Append(log, ThreadRequest(t, "query",
                  [appId |-> appid, signa |-> threads[t].params.signa,
                   ts |-> threads[t].params.ts,
                   orderId |-> threads[t].order_id, resultType |-> result_type]))
    /\ threads' = [threads EXCEPT ![t].at = "query_wait"]
    /\ UNCHANGED <<now, ts, signa, files, ClientRest, guiVars>>

\* lines 204-246 in thread t: the answer is handled, the pass ends
ThreadQueryAnswer(t) ==
    /\ threads[t].at = "query_wait"
    /\ \E r \in QueryResponses :
          /\ IsBusy(r) => threads[t].nbusy < MaxThreadBusy
          /\ threads' =
                [threads EXCEPT
                    ![t].at = IF PollIteration(r, threads[t].attempts).next = "return"
                              THEN "save_json" ELSE "loop",
                    ![t].attempts = PollIteration(r, threads[t].attempts).attempts,
                    ![t].nbusy = IF IsBusy(r) THEN @ + 1 ELSE @,
                    ![t].result = IF PollIteration(r, threads[t].attempts).next = "return"
                                  THEN r ELSE @]
    /\ UNCHANGED <<now, ts, signa, log, files, ClientRest, guiVars>>

\* the loop condition fails in thread t: TimeoutError
ThreadExhausted(t) ==
    /\ threads[t].at = "loop"
    /\ ~LoopCondition(threads[t].attempts, max_retry)
    /\ threads' = [threads EXCEPT ![t].at = "ended"]
    /\ UNCHANGED <<now, ts, signa, log, files, ClientRest, guiVars>>

\* save_results called at line 269 in thread t, lines 281-287: the JSON dump
\* is written, or its open() raises
ThreadSaveJson(t) ==
    /\ threads[t].at = "save_json"
    /\ \E opens \in BOOLEAN :
          IF opens
          THEN /\ files' = Append(files, JsonFile(threads[t].result, t))
               /\ threads' = [threads EXCEPT ![t].at = "save_text"]
          ELSE /\ threads' = [threads EXCEPT ![t].at = "ended"]
               /\ UNCHANGED files
    /\ UNCHANGED <<now, ts, signa, log, ClientRest, guiVars>>

\* save_results, lines 290-296: the transcript is extracted and written, or
\* the extraction or open() raises; transcribe returns
ThreadSaveText(t) ==
    /\ threads[t].at = "save_text"
    /\ \E opens \in BOOLEAN :
          files' = IF opens /\ ~ExtractTranscriptText(threads[t].result).raised
                   THEN Append(files, TextFile(threads[t].result, t))
                   ELSE files
    /\ threads' = [threads EXCEPT ![t].at = "ended"]
    /\ UNCHANGED <<now, ts, signa, log, ClientRest, guiVars>>

ConcNext ==
    \/ Tick
    \/ \E t \in Threads : ThreadBegin(t)
    \/ \E t \in Threads : ThreadUploadSigna(t)
    \/ \E t \in Threads : ThreadUploadTs(t)
    \/ \E t \in Threads : ThreadUploadSend(t)
    \/ \E t \in Threads : ThreadUploadAnswer(t)
    \/ \E t \in Threads : ThreadSignClock(t)
    \/ \E t \in Threads : ThreadSignTs(t)
    \/ \E t \in Threads : ThreadSignData(t)
    \/ \E t \in Threads : ThreadSignSigna(t)
    \/ \E t \in Threads : ThreadQuerySigna(t)
    \/ \E t \in Threads : ThreadQueryTs(t)
    \/ \E t \in Threads : ThreadQuerySend(t)
    \/ \E t \in Threads : ThreadQueryAnswer(t)
    \/ \E t \in Threads : ThreadExhausted(t)
    \/ \E t \in Threads : ThreadSaveJson(t)
    \/ \E t \in Threads : ThreadSaveText(t)

\* the client after __init__ with a budget of one counted failure: the pair
\* of a status query is fixed when the URL is built, before the loop
ConcInit == Init /\ max_retry = 1

ConcSpec == ConcInit /\ [][ConcNext]_vars

\* ------------------------------------------------------------ properties
Queries == {i \in 1..Len(log) : log[i].kind = "query"}

\* get_transcription_result returned its result to transcribe
PollReturned == pc \in {"save", "done"} \/ (pc = "raised" /\ ret # NoResp)
\* get_transcription_result raised TimeoutError
PollTimedOut == pc = "raised" /\ err.type = "TimeoutError"
PollEnded == PollReturned \/ PollTimedOut

\* C1: an answer with order status 5 ends polling at once with the
\* transcription-failed error; the attempt counter is not consumed and no
\* further query follows.
C1_Status5FailsAtOnce ==
    (nq > 0 /\ IsFailed(lastResp)) =>
        /\ pc = "raised"
        /\ err = Error("Exception", "transcription failed")
        /\ attempts = prevAttempts

\* C2 as claimed: every status query carries a pair generated after the
\* previous request of the call returned.
C2_ResignedEveryAttempt ==
    \A i \in Queries : log[i].sigCall = call /\ log[i].sigGen = i - 1

\* C2 as amended: the pair is generated once per poll, after the upload and
\* before the first query, and every query of the poll carries that pair.
C2_SignedOncePerPoll ==
    \A i \in Queries :
        /\ log[i].sigCall = call
        /\ log[i].sigGen = 1
        /\ log[i].params.ts = log[i].sigSec
        /\ log[i].params.signa
             = GenerateSigna(appid, secret_key, log[i].params.ts)
        /\ \A j \in Queries : Pair(log[j]) = Pair(log[i])

\* a later query was sent in a later second than the one its pair stems from
C2_Witness ==
    nq >= 2 /\ sentSec > log[Len(log)].params.ts

\* C3 as claimed: the pair of the status queries differs from the pair of
\* the upload of the same call.
C3_PairsAlwaysDiffer ==
    \A i \in Queries : Pair(log[i]) # Pair(log[1])

\* C3 as amended: the pair of the status queries is generated after the
\* upload returned, from the clock second of that moment; it differs from
\* the upload's pair exactly when that second is not the second the upload's
\* pair was generated in.
C3_RegeneratedAfterUpload ==
    \A i \in Queries :
        /\ log[1].kind = "upload"
        /\ log[i].sigCall = call
        /\ log[i].sigGen >= 1
        /\ log[i].params.ts = log[i].sigSec
        /\ (Pair(log[i]) # Pair(log[1]))
             <=> (log[i].sigSec # log[1].sigSec)

C3_Witness ==
    \E i \in Queries : Pair(log[i]) # Pair(log[1]) /\ log[1].kind = "upload"

\* C4: the pair an upload carries was generated after its transcribe call
\* began and was carried by no earlier request of the client.
C4_UploadSignedInItsCall ==
    \A i \in 1..Len(log) :
        log[i].kind = "upload" =>
            log[i].sigCall = call /\ Pair(log[i]) \notin used

\* C5: polling returns exactly when a query was answered with HTTP 200,
\* code 0 and status 4; it returns that answer and issues no query after it.
C5_ReturnsExactlyOnStatus4 ==
    /\ PollReturned <=> (nq > 0 /\ IsComplete(lastResp))
    /\ PollReturned => (ret = lastResp /\ Len(log) = nq + 1)
    /\ pc = "loop" => (ret = NoResp /\ ~IsComplete(lastResp))

C5_Witness ==
    pc = "save" /\ nq >= 2 /\ ret.status = 4 /\ ret.body = Text(EmptyObj)

\* C6: an answer with status 0, 1 or 3 leaves the attempt counter as it
\* was and polling goes on; n such answers followed by status 4 give success
\* after n + 1 queries with the counter at 0, for every max_retry >= 1.
C6_BusyLeavesCounter ==
    /\ (nq > 0 /\ IsBusy(lastResp)) => (attempts = prevAttempts /\ pc = "loop")
    /\ (pc = "loop" /\ ncounted = 0 /\ max_retry >= 1) => attempts < max_retry
    /\ (PollReturned /\ ncounted = 0) => (attempts = 0 /\ nq = nbusy + 1)

C6_Witness ==
    pc = "save" /\ nbusy >= 2 /\ ncounted = 0 /\ max_retry = 1
    /\ lastResp.status = 4

\* C7: the timeout error is raised only with the attempt counter at
\* max_retry and max_retry counted failures behind it; when every query
\* failed at transport level exactly max_retry queries were issued; no query
\* is issued with the counter at max_retry.
C7_TimeoutAtBudget ==
    /\ PollTimedOut => (attempts >= max_retry /\ ncounted >= max_retry)
    /\ (PollTimedOut /\ max_retry >= 0) => attempts = max_retry
    /\ (PollTimedOut /\ onlyTransport /\ max_retry >= 0) => nq = max_retry
    /\ nq > 0 => prevAttempts < max_retry

C7_Witness ==
    PollTimedOut /\ onlyTransport /\ nq = max_retry /\ max_retry >= 2

\* C8: an answer that fails by transport, by a non-zero application code or
\* by a status outside {0,1,3,4,5} adds exactly one to the attempt counter
\* and leaves polling in its loop, which ends only with the counter at
\* max_retry.
IsCountedFailure(r) ==
    \/ IsTransportFailure(r)
    \/ (r.json /\ r.code # 0)
    \/ (r.json /\ r.code = 0 /\ r.status \notin {NoStatus, 0, 1, 3, 4, 5})

C8_CountedFailureRetries ==
    /\ (nq > 0 /\ IsCountedFailure(lastResp)) =>
          /\ attempts = prevAttempts + 1
          /\ pc = "loop" \/ (PollTimedOut /\ attempts >= max_retry)
    /\ (pc = "loop" /\ attempts < max_retry) =>
          (ENABLED PollQuery /\ ~ENABLED PollExhausted)

C8_Witness ==
    /\ pc = "loop" /\ nq >= 2 /\ attempts < max_retry
    /\ lastResp.json /\ lastResp.code = 0 /\ lastResp.status = 2
    /\ attempts = prevAttempts + 1

\* C9: answers with status 0, 1 or 3 alone never end polling (max_retry >= 1):
\* a poll that has ended has seen another answer, and a poll that has seen
\* none stays in its loop; and once the service gives such answers no more,
\* polling ends.
C9_BusyUnboundedElseEnds ==
    /\ []((PollEnded /\ max_retry >= 1) => nq > nbusy)
    /\ []((pc = "loop" /\ nq = nbusy /\ max_retry >= 1) => attempts < max_retry)
    /\ ((pc = "poll") ~> PollEnded)

C9_Witness ==
    PollTimedOut /\ nbusy >= 2 /\ max_retry >= 1

\* C10: a status query follows a successful upload of the same call and
\* carries its order id; the upload is sent once; when upload or polling
\* fails transcribe raises and the call has written no artifact.
IsUploadOk(r) ==
    r.kind = "http" /\ r.http = 200 /\ r.json /\ r.code = 0
    /\ r.orderId \in Orders

FilesOfCall == {k \in 1..Len(files) : files[k].call = call}

C10_UploadPollPersist ==
    /\ \A i \in 1..Len(log) : (log[i].kind = "upload") <=> (i = 1)
    /\ \A i \in Queries :
          IsUploadOk(upload_result)
          /\ log[i].params.orderId = upload_result.orderId
    /\ pc \in {"poll", "loop", "save", "done"} => IsUploadOk(upload_result)
    /\ (call > 0 /\ pc # "upload" /\ ~IsUploadOk(upload_result)) =>
          (pc = "raised" /\ nq = 0 /\ err # NoErr /\ FilesOfCall = {})
    /\ PollTimedOut => FilesOfCall = {}
    /\ FilesOfCall # {} => PollReturned

C10_Witness ==
    PollTimedOut /\ nq >= 2 /\ call = 2 /\ FilesOfCall = {}
    /\ log[2].params.orderId = "def456"

\* C11: upload_file on a path that names no file raises FileNotFoundError
\* with no request sent and the pair (ts, signa) as it was before the call.
C11_MissingFileNoRequest ==
    /\ (call > 0 /\ pc # "upload" /\ ~file.exists /\ err.msg # "makedirs") =>
          /\ pc = "raised"
          /\ err = Error("FileNotFoundError", "file")
          /\ log = <<>>
          /\ sigHist.call < call
          /\ sigHist.gen = 0
          /\ <<ts, signa>> =
                <<sigHist.sec, GenerateSigna(appid, secret_key, sigHist.sec)>>
    /\ err = Error("FileNotFoundError", "file") => ~file.exists

\* the second call names a missing file after the first call sent requests
\* and re-signed
C11_Witness ==
    /\ err = Error("FileNotFoundError", "file") /\ call = 2 /\ used # {}
    /\ sigHist.call = 1 /\ now \div TicksPerSecond > ts

\* C12: the three upload failures (transport, unparseable body, non-zero
\* application code) are raised as three kinds of error, so that failures of
\* two classes never have the same kind; the error of an application failure
\* carries the code and its description; upload_file returns only when none
\* of the three occurred.
UploadFailure(r) ==
    IF r.kind = "none" THEN "none"
    ELSE IF r.kind = "exc" \/ r.http # 200 THEN "transport"
    ELSE IF ~r.json THEN "malformed"
    ELSE IF r.code # 0 THEN "api"
    ELSE "none"

C12_ThreeDistinctKinds ==
    /\ \A r \in UploadResponses :
          (/\ UploadFailure(postResp) # "none"
           /\ UploadFailure(r) # "none"
           /\ UploadFailure(r) # UploadFailure(postResp))
          => UploadOutcome(r).type # err.type
    /\ UploadFailure(postResp) = "api" =>
          (err.code = postResp.code /\ err.desc = ErrorDescription(postResp.code))
    /\ upload_result # NoResp => UploadFailure(postResp) = "none"

\* ---- save_results and extract_transcript_text, called with any result
RECURSIVE Flatten(_)
Flatten(ss) == IF ss = <<>> THEN <<>> ELSE Head(ss) \o Flatten(Tail(ss))

\* the characters of all tokens of a lattice shape / a sentences shape, in order
LatticeText(ls) == Flatten(Flatten(Flatten(Flatten(ls))))
SentencesText(ss) == Flatten(Flatten(ss))

\* save_results(ret) has run to its end
Saved == ret # NoResp /\ pc = "done"
\* the transcript it wrote
Transcript == files[Len(files)].content

\* C13: for a document with a `lattice` key the transcript is the
\* concatenation, without separator, of the w of every cw of every ws of
\* every rt of every lattice entry, in order, also when a `sentences` key is
\* there as well; for a document with only a `sentences` key it is the
\* concatenation of the w of every word of every sentence.
C13_ConcatenatesTokens ==
    Saved =>
        /\ files[Len(files)].type = "txt"
        /\ \A ls \in LatticeShapes :
              ret.body = Text(LatticeDoc(ls)) => Transcript = LatticeText(ls)
        /\ \A p \in BothShapes :
              ret.body \in {Text(BothDoc(p[1], p[2])),
                            Text(BothDocSentencesFirst(p[1], p[2]))}
                  => Transcript = LatticeText(p[1])
        /\ \A t \in Tokens :
              ret.body = Text(LatticeDocOf(JObj([ws |->
                             JArr(<<JObj([cw |-> JArr(<<CwWpFirst(t)>>)])>>)])))
                  => Transcript = t
        /\ \A ss \in SentenceShapes :
              ret.body = Text(SentencesDoc(ss)) => Transcript = SentencesText(ss)
        /\ ret.body = Text(LatticeDoc(<< << <<<<Jin, Tian, TianQi>>>> >> >>))
              => Transcript = <<"jin", "tian", "tian", "qi">>
        /\ ret.body = Text(SentencesDoc(<<<<Hello, Space, World>>>>))
              => Transcript = <<"h", "e", "l", "l", "o", " ", "w", "o", "r", "l", "d">>

\* a document with both keys, whose lattice tokens differ from its words
C13_Witness ==
    /\ Saved
    /\ ret.body = Text(BothDoc(<< << <<<<TianQi>>>> >> >>, <<<<Jin>>>>))
    /\ Transcript = <<"tian", "qi">>

\* results for which the body of extract_transcript_text raises: no
\* orderResult (KeyError), no JSON text (JSONDecodeError), a document or a
\* node of a type the traversal cannot use (TypeError, AttributeError)
RaisingBodies ==
    {NoBody, BadText, Text(JNull), Text(JNum(1)),
     Text(JArr(<<JStr(KeyText.lattice)>>)),
     Text(JObj([lattice |-> JNull])),
     Text(JObj([lattice |-> JArr(<<JNull>>)])),
     Text(JObj([lattice |-> JArr(<<JObj([json_1best |-> JStr(<<"x">>)])>>)])),
     Text(LatticeDocOf(JObj([ws |-> JNull]))),
     Text(LatticeDocOf(JObj([ws |-> JArr(<<JObj([cw |-> JArr(<<Cw(Jin), JNum(1)>>)])>>)]))),
     Text(LatticeDocOf(JObj([ws |-> JArr(<<JObj([cw |->
                                  JArr(<<Cw(Jin), JObj([w |-> JNum(1)])>>)])>>)]))),
     Text(JObj([sentences |-> JNum(1)])),
     Text(JObj([sentences |-> JArr(<<JObj([words |-> JArr(<<Word(Jin), JNull>>)])>>)]))}

NeitherBodies == {Text(d) : d \in NeitherDocs}

IsString(x) == DOMAIN x = 1..Len(x) /\ \A i \in 1..Len(x) : x[i] \in STRING

\* C14: extract_transcript_text returns a string for every result and never
\* raises: save_results fails only at its open() calls and otherwise writes a
\* string; for a document with neither key the string is the sentinel.
C14_ExtractionTotal ==
    /\ err.msg # "extract"
    /\ (ret # NoResp /\ pc = "raised") => err.type = "OSError"
    /\ Saved => (files[Len(files)].type = "txt" /\ IsString(Transcript))
    /\ (Saved /\ ret.body \in NeitherBodies) =>
           Transcript = <<"wu", "fa", "jie3", "xi", "zhuan", "xie", "jie2", "guo">>

\* a node of the wrong shape deep in the document
C14_Witness ==
    /\ Saved
    /\ ret.body = Text(LatticeDocOf(JObj([ws |-> JNull])))
    /\ IsString(Transcript)

\* C15 as claimed: when the JSON parse or the traversal raises, the string
\* returned is the one returned for a document with neither key.
C15_SameSentinelOnException ==
    (Saved /\ ret.body \in RaisingBodies) =>
        Transcript =
            ExtractTranscriptText(Resp("http", 200, TRUE, 0, 4, Text(EmptyObj),
                                       NoOrder)).value

\* C15 as amended: when the JSON parse or the traversal raises, the exception
\* is caught and a fixed string is returned, which is another one than the
\* string returned for a document with neither key.
C15_OwnSentinelOnException ==
    /\ (ret # NoResp /\ ret.body \in RaisingBodies /\ pc = "raised") =>
          err.type = "OSError"
    /\ (Saved /\ ret.body \in RaisingBodies) =>
          /\ Transcript = <<"ti", "qu", "wen", "ben", "nei", "rong", "shi", "bai">>
          /\ Transcript #
               ExtractTranscriptText(Resp("http", 200, TRUE, 0, 4, Text(EmptyObj),
                                          NoOrder)).value

\* the orderResult is no JSON text
C15_Witness ==
    Saved /\ ret.body = BadText /\ Transcript = ExtractFailedText

\* C16: save_results writes the JSON dump of the result before it extracts
\* the transcript: a text file is always preceded by the dump, the dump is
\* there when the text file cannot be written, and for a result whose
\* extraction fails save_results ends without error with the dump and a text
\* file holding the failure string.
C16_RawResultKept ==
    /\ \A i \in 1..Len(files) :
          files[i].type = "txt" =>
              (i > 1 /\ files[i - 1].type = "json" /\ files[i - 1].content = ret)
    /\ err.msg = "text_fails" =>
          (Len(files) = 1 /\ files[1].type = "json" /\ files[1].content = ret)
    /\ (ret # NoResp /\ pc = "raised") => err.type = "OSError"
    /\ (Saved /\ ret.body \in RaisingBodies \cup NeitherBodies) =>
          /\ err = NoErr
          /\ Len(files) = 2
          /\ files[1].type = "json" /\ files[1].content = ret
          /\ files[2].type = "txt"
          /\ files[2].content =
                IF ret.body \in NeitherBodies
                THEN <<"wu", "fa", "jie3", "xi", "zhuan", "xie", "jie2", "guo">>
                ELSE <<"ti", "qu", "wen", "ben", "nei", "rong", "shi", "bai">>

\* both files are there after an extraction that failed
C16_Witness ==
    /\ Saved /\ Len(files) = 2
    /\ ret.body = Text(JNum(1))
    /\ files[1].content = ret
    /\ files[2].content = ExtractFailedText

\* C18: the description that goes with an application code is the entry of
\* the table for a code of the table (10006: invalid signature) and the
\* unknown-error description for any other non-zero code, in the error
\* upload_file raises and in the warning of a status query alike.
TableDescription(c) ==
    IF c \in DOMAIN ERROR_CODES THEN ERROR_CODES[c] ELSE "unknown error"

C18_CodeResolvedByTable ==
    /\ UploadFailure(postResp) = "api" =>
          /\ pc = "raised"
          /\ err.code = postResp.code
          /\ err.desc = TableDescription(postResp.code)
          /\ postResp.code = 10006 => err.desc = "invalid signature"
          /\ postResp.code \notin DOMAIN ERROR_CODES => err.desc = "unknown error"
    /\ (nq > 0 /\ lastResp.kind = "http" /\ lastResp.http = 200 /\ lastResp.json
        /\ lastResp.code # 0) =>
          /\ warning.code = lastResp.code
          /\ warning.desc = TableDescription(lastResp.code)
          /\ lastResp.code = 10006 => warning.desc = "invalid signature"
          /\ lastResp.code \notin DOMAIN ERROR_CODES => warning.desc = "unknown error"
    /\ (nq > 0 /\ (IsTransportFailure(lastResp) \/ lastResp.code = 0)) =>
          warning = NoWarning

\* a poll whose first counted query was answered with a code the table does
\* not hold and whose second is answered with the last code of the table
C18_Witness ==
    /\ nq >= 2 /\ attempts = 2 /\ pc = "loop"
    /\ lastResp.code = 10800 /\ warning.desc = "invalid audio format"

\* C19: the duration an upload request carries is the number of whole
\* 32000-byte seconds of the file size: 0 for 0..31999 bytes, 1 for
\* 32000..63999 bytes, and so on.
C19_DurationIsFloor ==
    \A i \in 1..Len(log) :
        log[i].kind = "upload" =>
            LET size == log[i].params.fileSize
                d == log[i].params.duration
            IN /\ size = file.size
               /\ d >= 0
               /\ d * 32000 <= size /\ size < (d + 1) * 32000
               /\ size \in 0..31999 => d = 0
               /\ size \in 32000..63999 => d = 1

\* the last byte before two seconds
C19_Witness ==
    /\ Len(log) = 1 /\ log[1].kind = "upload"
    /\ log[1].params.fileSize = 63999 /\ log[1].params.duration = 1

\* C20: every status query that does not end polling is followed by one
\* time.sleep(poll_interval) before the next query is issued, whatever its
\* answer; the query answered with status 4 returns with no wait after it.
C20_WaitBetweenQueries ==
    /\ pc = "loop" => sleeps = nq
    /\ PollTimedOut => sleeps = nq
    /\ PollReturned => (sleeps = nq - 1 /\ IsComplete(lastResp))

\* a poll that waited after a busy answer and after a counted failure, and
\* not after its status-4 answer
C20_Witness ==
    /\ pc = "save" /\ nq = 3 /\ sleeps = 2 /\ nbusy = 1 /\ attempts = 1
    /\ lastResp.status = 4

\* C17: at most one worker thread is inside run_transcription at any time,
\* hence at most one polling loop; a worker is started only with
\* is_processing false, which is true from then on until that worker has
\* reached line 655, and false otherwise.
Running == {w \in DOMAIN workers : workers[w].at # "ended"}
Holding == {w \in DOMAIN workers :
               workers[w].at \notin {"enable", "ended"}}

C17_OneJobAtATime ==
    /\ Cardinality(Running) <= 1
    /\ Cardinality({w \in DOMAIN workers : workers[w].at = "transcribe"}) <= 1
    /\ is_processing <=> Holding # {}
    /\ mainPc = "start" => (~is_processing /\ Running = {})
    /\ Running # {} => transcribe_button # "normal"

\* the second worker is polling after the first job has failed and ended
C17_Witness ==
    /\ Len(workers) = 2 /\ workers[2].at = "transcribe" /\ is_processing
    /\ workers[1].outcome = "TimeoutError" /\ workers[1].at = "ended"
    /\ mainPc = "idle"

\* get_transcription_result has set its local attempts (line 198) in the
\* current call
InPoll == url # NoUrl

\* what C21 states besides the range of the counter
C21_CounterSteps ==
    /\ [][(InPoll /\ call' = call) =>
             /\ attempts' \in {attempts, attempts + 1}
             /\ nq' \in {nq, nq + 1}
             /\ attempts' # attempts => nq' = nq + 1
             /\ nq' # nq => attempts < max_retry]_vars
    /\ [](nq > 0 => (InPoll /\ prevAttempts < max_retry))
    /\ [](max_retry <= 0 =>
             /\ nq = 0
             /\ ~ENABLED PollQuery
             /\ pc = "loop" => ENABLED PollExhausted
             /\ PollEnded => PollTimedOut)
    /\ [](InPoll => nq = attempts + nbusy + (IF PollReturned THEN 1 ELSE 0))

\* C21 as claimed: in every state of a poll 0 <= attempts <= max_retry;
\* attempts never decreases and grows by at most one per status query; a
\* query is issued only with attempts < max_retry, so with max_retry <= 0 no
\* query is issued and polling can only end with the timeout error; the
\* queries issued are attempts plus the answers with status 0, 1 or 3 plus
\* one if polling returned.
C21_AttemptsWithinBudget ==
    /\ [](InPoll => (0 <= attempts /\ attempts <= max_retry))
    /\ C21_CounterSteps

\* C21 as amended: in every state of a poll attempts is at least 0 and at
\* most max_retry, or 0 when max_retry is negative; attempts never decreases
\* and grows by at most one per status query; a query is issued only with
\* attempts < max_retry, so with max_retry <= 0 no query is issued and polling
\* can only end with the timeout error; the queries issued are attempts plus
\* the answers with status 0, 1 or 3 plus one if polling returned.
C21_AttemptsWithinWork ==
    /\ [](InPoll =>
             (0 <= attempts
              /\ attempts <= (IF max_retry < 0 THEN 0 ELSE max_retry)))
    /\ C21_CounterSteps

\* the second call of the client timed out with its budget of two used up
\* by two counted answers, one answer with status 0, 1 or 3 among its three
C21_Witness ==
    /\ PollTimedOut /\ call = 2 /\ max_retry = 2 /\ attempts = 2
    /\ nbusy = 1 /\ nq = 3 /\ prevAttempts = 1

\* the jobs whose run_transcription got past both calls of lines 644-645
Succeeded ==
    {w \in DOMAIN workers :
        workers[w].outcome = "returned"
        /\ workers[w].at \in {"notify", "finally", "enable", "ended"}}

\* C22: a job of the window that succeeds has executed save_results once
\* between the start and the end of run_transcription, so that one JSON dump
\* and one text file are written for it.
C22_SavedOnce ==
    \A w \in Succeeded : workers[w].saves = 1

\* a worker is inside client.transcribe / has come out of it and not ended
AtTranscribe == \E w \in DOMAIN workers : workers[w].at = "transcribe"
PastTranscribe ==
    \E w \in DOMAIN workers :
        workers[w].outcome # "none" /\ workers[w].at # "ended"

\* C23 as claimed: a worker ends only with is_processing false and the re-enabling of
\* the button handed to the main loop as the last callback, however its
\* transcribe call ended; once the call has ended the flag is released and
\* the button enabled again, and a start_transcription with valid inputs is
\* then accepted; is_processing stays true forever only if a
\* client.transcribe call never ends.
C23_FlagReleased ==
    /\ [][\A w \in DOMAIN workers :
             (workers[w].at # "ended" /\ workers'[w].at = "ended") =>
                 /\ ~is_processing'
                 /\ afterq' # <<>>
                 /\ afterq'[Len(afterq')] = "enable"]_vars
    /\ []((\A w \in DOMAIN workers : workers[w].at = "ended") => ~is_processing)
    /\ [](\A w \in DOMAIN workers :
             workers[w].at \in {"enable", "ended"} =>
                 workers[w].outcome \in TranscribeOutcomes)
    /\ (PastTranscribe ~> (~is_processing /\ transcribe_button = "normal"))
    /\ []((~is_processing /\ transcribe_button = "normal" /\ mainPc = "idle"
           /\ Len(workers) < MaxJobs) => ENABLED (StartCheck /\ mainPc' = "start"))
    /\ (<>[]is_processing => <>[]AtTranscribe)

\* C23 as amended: a worker ends only with is_processing false, however its
\* transcribe call ended, and, while the window is open, with the re-enabling
\* of the button handed to the main loop as the last callback; once the call
\* has ended the flag is released and the button enabled again unless the
\* window is closed first, and a start_transcription with valid inputs is
\* then accepted; is_processing stays true forever only if a
\* client.transcribe call never ends or the window was closed during the job.
C23_FlagReleasedWhileOpen ==
    /\ [][\A w \in DOMAIN workers :
             (workers[w].at # "ended" /\ workers'[w].at = "ended") =>
                 /\ ~is_processing'
                 /\ Open => (afterq' # <<>> /\ afterq'[Len(afterq')] = "enable")
                 /\ ~Open => afterq' = afterq]_vars
    /\ []((\A w \in DOMAIN workers : workers[w].at = "ended") => ~is_processing)
    /\ [](\A w \in DOMAIN workers :
             workers[w].at \in {"enable", "ended"} =>
                 workers[w].outcome \in TranscribeOutcomes)
    /\ (PastTranscribe ~> ((~is_processing /\ transcribe_button = "normal") \/ ~Open))
    /\ []((~is_processing /\ transcribe_button = "normal" /\ mainPc = "idle"
           /\ Len(workers) < MaxJobs) => ENABLED (StartCheck /\ mainPc' = "start"))
    /\ [](~Open => (~ENABLED StartCheck /\ ~ENABLED RunCallback /\ afterq = <<>>))
    /\ (<>[]is_processing => <>[](AtTranscribe \/ ~Open))

\* a second job was accepted after the first failed at the save_results
\* call of line 645
C23_Witness ==
    /\ Len(workers) = 2 /\ workers[1].at = "ended"
    /\ workers[1].outcome = "OSError" /\ workers[1].saves = 2
    /\ workers[2].at = "client" /\ is_processing
    /\ transcribe_button = "disabled"

\* C24: every request sent carries a signa that is the signature of the ts
\* it carries, upload and status requests alike, also when several threads
\* call transcribe on the one client.
C24_ConsistentPair ==
    \A i \in 1..Len(log) :
        log[i].params.signa = GenerateSigna(appid, secret_key, log[i].params.ts)

====
